---- MODULE Spec2Model ----
(***************************************************************************)
(* LLM-Search: the Indexer (llm_search/indexer.py) keeps a SQLite table    *)
(* of chunk embeddings (llm_search/database.py) and an in-memory FAISS     *)
(* IndexIDMap in step; the Searcher (llm_search/searcher.py) answers       *)
(* queries from both.                                                      *)
(*                                                                         *)
(* Spec       : every Indexer operation and every search runs to           *)
(*              completion before the next one starts (one thread).        *)
(* SearchSpec : Searcher.search on the caller's thread and _search_task on *)
(*              the executor's one worker thread, step by step, over       *)
(*              stores that do not change.                                 *)
(* ThreadSpec : the Indexer's operations step by step on the threads that  *)
(*              run them: the watchdog observer, update_thread, and the    *)
(*              thread that calls update_indexes.                          *)
(* QuerySpec  : one query task on the executor's worker, its index search  *)
(*              and its walk step by step, while the observer thread and   *)
(*              a caller of update_indexes run (the startup check over).   *)
(* StartSpec  : start_indexer's init_index step by step on the thread that *)
(*              calls it, while the executor's worker runs a query task.   *)
(* StopSpec   : check_and_update_index on update_thread, one loop pass at  *)
(*              a time, while another thread may call stop_indexer;        *)
(*              FairStopSpec is StopSpec with update_thread scheduled.     *)
(***************************************************************************)
EXTENDS Integers, Sequences, FiniteSets, Bags, TLC

VARIABLES
    db,         \* the embeddings table: a set of rows
    index,      \* Indexer.index: [exists, entries], entries a bag of [id, vec]
    last,       \* history: the operation that completed last
    removed,    \* history: paths removed by remove_from_index and not indexed since
    results,    \* what the last search computed: [query, top_n, hits, out]
    futures,        \* SearchSpec: the Futures handed out by executor.submit
    current_future, \* SearchSpec: Searcher.current_future (0 is None)
    executor,       \* SearchSpec: the executor: [work_queue, shutdown]
    lock,           \* SearchSpec: the thread inside Searcher.search (lock held)
    worker,         \* SearchSpec: the executor's worker thread
    threads,        \* ThreadSpec: where each Indexer thread is, with its locals
    events,         \* ThreadSpec: the operations started so far
    stop_flag       \* StopSpec: Indexer.stop_flag is set

indexer_vars == <<db, index, last, removed, results>>
searcher_vars == <<futures, current_future, executor, lock, worker>>
thread_vars == <<threads, events, stop_flag>>
vars == <<indexer_vars, searcher_vars, thread_vars>>

----------------------------------------------------------------------------
(* Bounds and input domains *)

MaxId == 3            \* no row id above MaxId is issued
MaxEntries == 3       \* the FAISS index holds at most MaxEntries vectors

Paths == {"a.txt", "b.txt"}
Mtimes == {1, 2}                  \* what os.path.getmtime may return
Texts == {<<>>, <<1>>}            \* a file's text, as tokens ("" and one token)
Queries == {<<1>>, <<2>>}         \* query texts, as tokens

\* Python's None where a number is expected (database.py:65, searcher.py:21)
None == -1
\* the id FAISS pads a result with when fewer than k vectors exist (searcher.py:59)
NoId == -1
\* max_tokens = max_length_tokens - num_special_tokens_to_add(), scaled down
max_tokens == 1

TopNs == {None, 1, 2}

Max(S) == CHOOSE x \in S : \A y \in S : y <= x
Min(S) == CHOOSE x \in S : \A y \in S : x <= y

RECURSIVE SumSeq(_)
SumSeq(s) == IF s = <<>> THEN 0 ELSE Head(s) + SumSeq(Tail(s))

----------------------------------------------------------------------------
(* llm_search/embeddings.py, llm_search/extractor.py *)

\* The preamble update_index puts before the text names the file, so its
\* tokens depend on the path alone.
preamble(file_path) == IF file_path = "a.txt" THEN <<0>> ELSE <<3>>

\* extract_text_from_file: the text of the file ("" for all that is not text)
extract_text_from_file(fs, file_path) == fs[file_path].text

\* split_into_chunks: slices of at most max_tokens tokens
split_into_chunks(text) ==
    [i \in 1..((Len(text) + max_tokens - 1) \div max_tokens) |->
        SubSeq(text, (i - 1) * max_tokens + 1,
               IF i * max_tokens < Len(text) THEN i * max_tokens ELSE Len(text))]

\* get_embeddings: one vector per chunk (here one integer coordinate)
get_embeddings(chunks) == [i \in 1..Len(chunks) |-> SumSeq(chunks[i])]

get_document_embeddings(text) == get_embeddings(split_into_chunks(text))

\* IndexFlatL2: squared Euclidean distance
L2(u, v) == (u - v) * (u - v)

----------------------------------------------------------------------------
(* llm_search/database.py: the embeddings table *)

Row(id, file_path, chunk_index, embedding, last_modified) ==
    [id |-> id, file_path |-> file_path, chunk_index |-> chunk_index,
     embedding |-> embedding, last_modified |-> last_modified]

RowsOf(table, file_path) == {r \in table : r.file_path = file_path}
IdsOf(table, file_path) == {r.id : r \in RowsOf(table, file_path)}
DbIds(table) == {r.id : r \in table}
DbPaths(table) == {r.file_path : r \in table}

\* id INTEGER PRIMARY KEY without AUTOINCREMENT: an insert that names no id
\* gets the largest id in the table plus one (1 in an empty table)
NewRowid(table) == IF table = {} THEN 1 ELSE Max(DbIds(table)) + 1

\* INSERT OR REPLACE: the id is drawn first, then the row that conflicts on
\* UNIQUE(file_path, chunk_index) is deleted, then the new row is inserted
InsertOrReplace(table, file_path, chunk_index, embedding, last_modified) ==
    LET chunk_id == NewRowid(table)
        kept == {r \in table :
                    ~(r.file_path = file_path /\ r.chunk_index = chunk_index)}
    IN  [table |-> kept \cup {Row(chunk_id, file_path, chunk_index,
                                   embedding, last_modified)},
         lastrowid |-> chunk_id]

RECURSIVE InsertLoop(_, _, _, _, _, _)
InsertLoop(table, file_path, embeddings, last_modified, k, chunk_ids) ==
    IF k > Len(embeddings)
    THEN [table |-> table, chunk_ids |-> chunk_ids]
    ELSE LET ins == InsertOrReplace(table, file_path, k - 1,
                                    embeddings[k], last_modified)
         IN  InsertLoop(ins.table, file_path, embeddings, last_modified,
                        k + 1, Append(chunk_ids, ins.lastrowid))

\* chunks_to_delete = existing_chunks - new_chunks, each deleted
DeleteStaleChunks(table, file_path, n) ==
    {r \in table : ~(r.file_path = file_path /\ r.chunk_index >= n)}

\* insert_or_update_embedding: [table after commit, chunk_ids returned]
insert_or_update_embedding(table, file_path, embeddings, last_modified) ==
    InsertLoop(DeleteStaleChunks(table, file_path, Len(embeddings)),
               file_path, embeddings, last_modified, 1, <<>>)

\* get_last_modified_time: MAX(last_modified) of the file's rows, None without rows
get_last_modified_time(table, file_path) ==
    IF RowsOf(table, file_path) = {} THEN None
    ELSE Max({r.last_modified : r \in RowsOf(table, file_path)})

----------------------------------------------------------------------------
(* faiss.IndexIDMap(faiss.IndexFlatL2(d)): a bag of (id, vector) pairs.     *)
(* add_with_ids never looks for the id: an id added twice is held twice.   *)

Entry(id, vec) == [id |-> id, vec |-> vec]

\* (mutant) the vector is not added
add_with_ids_dropped(entries, vec, id) == entries

add_with_ids(entries, vec, id) == entries (+) SetToBag({Entry(id, vec)})

\* (mutant) every id up to the largest one given is removed
remove_ids_upto(entries, ids) ==
    [e \in {x \in BagToSet(entries) : \A id \in ids : x.id > id} |-> entries[e]]

remove_ids(entries, ids) ==
    [e \in {x \in BagToSet(entries) : x.id \notin ids} |-> entries[e]]

\* (mutant) reset() left out
IndexResetOmitted == index.entries

IndexReset == EmptyBag

IndexIds(entries) == {e.id : e \in BagToSet(entries)}
IndexSize(entries) == BagCardinality(entries)

\* the entries in ascending distance from the query vector; entries at the
\* same distance come in an order FAISS does not promise: every order is taken
RECURSIVE Nearest(_, _)
Nearest(entries, q) ==
    IF entries = EmptyBag THEN {<<>>}
    ELSE LET S == BagToSet(entries)
             d == Min({L2(e.vec, q) : e \in S})
         IN  UNION {{<<[id |-> e.id, dist |-> d]>> \o rest :
                        rest \in Nearest(entries (-) SetToBag({e}), q)} :
                    e \in {x \in S : L2(x.vec, q) = d}}

\* index.search(q, k): the k nearest, padded with id -1 up to k
Pad(s, k) == [i \in 1..k |-> IF i <= Len(s) THEN s[i]
                                ELSE [id |-> NoId, dist |-> NoId]]
IndexSearch(entries, q, k) == {Pad(s, k) : s \in Nearest(entries, q)}

----------------------------------------------------------------------------
(* llm_search/indexer.py: the Indexer's operations on st = [db, entries].   *)
(* Each returns the stores it leaves and how it ended (outcome).           *)

Range(s) == {s[i] : i \in 1..Len(s)}

Stores(table, entries, outcome) ==
    [db |-> table, entries |-> entries, outcome |-> outcome]

\* (mutant) >= for >
needs_update_ge(force_update, db_last_modified, last_modified) ==
    \/ force_update
    \/ db_last_modified = None
    \/ last_modified >= db_last_modified

\* update_index line 150
needs_update(force_update, db_last_modified, last_modified) ==
    \/ force_update
    \/ db_last_modified = None
    \/ last_modified > db_last_modified

\* update_index lines 166-173: the file's rows are read back after the upsert
existing_chunk_ids(table_after_upsert, file_path) ==
    IdsOf(table_after_upsert, file_path)

\* update_index line 176
chunks_to_remove(existing, new_chunk_ids) == existing \ new_chunk_ids

\* update_index lines 181-183
RECURSIVE AddLoop(_, _, _, _)
AddLoop(entries, embeddings, chunk_ids, k) ==
    IF k > Len(embeddings) THEN entries
    ELSE AddLoop(add_with_ids(entries, embeddings[k], chunk_ids[k]),
                 embeddings, chunk_ids, k + 1)

update_index(st, fs, file_path, force_update) ==
    IF ~fs[file_path].exists
    THEN Stores(st.db, st.entries, "raised")      \* os.path.getmtime raises
    ELSE
    LET last_modified == fs[file_path].mtime
        db_last_modified == get_last_modified_time(st.db, file_path)
    IN  IF needs_update(force_update, db_last_modified, last_modified)
        THEN LET text == preamble(file_path) \o extract_text_from_file(fs, file_path)
             IN  IF text # <<>>
                 THEN LET embeddings == get_document_embeddings(text)
                          up == insert_or_update_embedding(
                                    st.db, file_path, embeddings, last_modified)
                          stale == chunks_to_remove(
                                    existing_chunk_ids(up.table, file_path),
                                    Range(up.chunk_ids))
                          pruned == IF stale # {}
                                    THEN remove_ids(st.entries, stale)
                                    ELSE st.entries
                      IN  Stores(up.table,
                                 AddLoop(pruned, embeddings, up.chunk_ids, 1),
                                 "updated")
                 ELSE Stores(st.db, st.entries, "empty")
        ELSE Stores(st.db, st.entries, "skipped")

\* (mutant) the file's rows are dropped before its text is embedded
dropped_before_embedding(st, file_path) ==
    Stores({r \in st.db : r.file_path # file_path}, st.entries, "start")

\* update_index lines 148-161: what the stores hold when line 162 is
\* reached (nothing is written before it)
written_before_embedding(st, file_path) ==
    Stores(st.db, st.entries, "start")

\* update_index when get_document_embeddings raises at line 162: the
\* exception leaves update_index, line 163 and what follows do not run
update_index_embedder_raises(st, fs, file_path, force_update) ==
    IF ~fs[file_path].exists
    THEN Stores(st.db, st.entries, "raised")
    ELSE
    LET last_modified == fs[file_path].mtime
        db_last_modified == get_last_modified_time(st.db, file_path)
        text == preamble(file_path) \o extract_text_from_file(fs, file_path)
    IN  IF needs_update(force_update, db_last_modified, last_modified)
           /\ text # <<>>
        THEN [written_before_embedding(st, file_path)
                EXCEPT !.outcome = "embedding_failed"]
        ELSE Stores(st.db, st.entries, "skipped")

\* (mutant) only the file's first chunk is deleted
DeleteFirstChunk(table, file_path) ==
    {r \in table : ~(r.file_path = file_path /\ r.chunk_index = 0)}

\* remove_from_index line 197
DeleteFileRows(table, file_path) == {r \in table : r.file_path # file_path}

remove_from_index(st, file_path) ==
    LET chunk_ids == IdsOf(st.db, file_path)
    IN  IF chunk_ids # {}
        THEN Stores(DeleteFileRows(st.db, file_path),
                    remove_ids(st.entries, chunk_ids), "removed")
        ELSE Stores(st.db, st.entries, "nothing")

\* the orders in which a loop may visit a set of paths (os.walk, set iteration)
RECURSIVE Orders(_)
Orders(S) ==
    IF S = {} THEN {<<>>}
    ELSE UNION {{<<x>> \o rest : rest \in Orders(S \ {x})} : x \in S}

\* the files an os.walk of the watched directories finds
Walked(fs) == {f \in Paths : fs[f].exists}

\* update_indexes lines 135-139
RECURSIVE ReindexLoop(_, _, _)
ReindexLoop(st, fs, files) ==
    IF files = <<>> THEN st
    ELSE ReindexLoop(update_index(st, fs, Head(files), TRUE), fs, Tail(files))

\* update_indexes lines 126-132
ClearStores(st) == Stores({}, IndexReset, "cleared")

update_indexes(st, fs, files) ==
    [ReindexLoop(ClearStores(st), fs, files) EXCEPT !.outcome = "rescanned"]

\* check_and_update_index lines 229-234
RECURSIVE RemoveLoop(_, _)
RemoveLoop(st, files) ==
    IF files = <<>> THEN st
    ELSE RemoveLoop(remove_from_index(st, Head(files)), Tail(files))

\* check_and_update_index lines 238-246
RECURSIVE CheckLoop(_, _, _)
CheckLoop(st, fs, files) ==
    IF files = <<>> THEN st
    ELSE LET file_path == Head(files)
             last_modified == fs[file_path].mtime
             db_last_modified == get_last_modified_time(st.db, file_path)
         IN  CheckLoop(IF db_last_modified = None \/ last_modified > db_last_modified
                       THEN update_index(st, fs, file_path, FALSE)
                       ELSE st,
                       fs, Tail(files))

\* (mutant) check_and_update_index without the loop of lines 229-234
check_and_update_index_keeping(st, fs, to_remove, to_check, new_files) ==
    [ReindexLoop(CheckLoop(st, fs, to_check), fs, new_files)
        EXCEPT !.outcome = "checked"]

\* check_and_update_index with the stop flag clear: the three loops in turn
check_and_update_index(st, fs, to_remove, to_check, new_files) ==
    [ReindexLoop(CheckLoop(RemoveLoop(st, to_remove), fs, to_check), fs, new_files)
        EXCEPT !.outcome = "checked"]

\* init_index lines 61-82: a fresh index loaded with every row of the table
init_index(table) ==
    LET rows == table
    IN  [e \in {Entry(r.id, r.embedding) : r \in rows} |->
            Cardinality({r \in rows : Entry(r.id, r.embedding) = e})]

----------------------------------------------------------------------------
(* llm_search/searcher.py: Searcher._search_task *)

\* lines 45-50: top_n None means the number of distinct files in the table
effective_top_n(table, top_n) ==
    IF top_n # None THEN top_n ELSE Cardinality(DbPaths(table))

\* (mutant) no overscan: top_n neighbours are asked for
upper_bound_without_overscan(table, top_n) ==
    IF top_n # None THEN top_n ELSE Cardinality(DbPaths(table))

upper_bound_top_n(table, top_n) ==
    IF top_n # None THEN 5 * top_n ELSE Cardinality(DbPaths(table))

\* line 69: distances[0][np.where(indices[0] == idx)[0][0]]
DistanceOf(hits, idx) ==
    hits[Min({j \in 1..Len(hits) : hits[j].id = idx})].dist

\* (mutant) the unique_files test left out
never_emitted(file_path, unique_files) == FALSE

\* line 67
already_emitted(file_path, unique_files) == file_path \in unique_files

\* lines 55-74 without the cancellation check of line 56: one pass of the
\* loop body at position i. stop is set by a break.
WalkStep(hits, table, top_n, i, unique_files, out) ==
    LET idx == hits[i].id
        result == {r \in table : r.id = idx}
        file_path == (CHOOSE r \in result : TRUE).file_path
        grown == Append(out, [file_path |-> file_path,
                              distance |-> DistanceOf(hits, idx)])
        On(u, o, stop) == [i |-> i + 1, unique_files |-> u, out |-> o,
                           stop |-> stop]
    IN  IF idx = NoId THEN On(unique_files, out, TRUE)
        ELSE IF result = {} THEN On(unique_files, out, FALSE)
        ELSE IF already_emitted(file_path, unique_files)
             THEN On(unique_files, out, FALSE)
             ELSE On(unique_files \cup {file_path}, grown, Len(grown) = top_n)

\* the loop from position i on, never cancelled
RECURSIVE Walk(_, _, _, _, _, _)
Walk(hits, table, top_n, i, unique_files, out) ==
    IF i > Len(hits) THEN out
    ELSE LET w == WalkStep(hits, table, top_n, i, unique_files, out)
         IN  IF w.stop THEN w.out
             ELSE Walk(hits, table, top_n, w.i, w.unique_files, w.out)

\* get_document_embeddings(query)[0]
query_embedding(query) == get_document_embeddings(query)[1]

----------------------------------------------------------------------------
(* State *)

\* What the file system holds at a path when the program reads it. The
\* program only reads the file system: each operation takes what it finds
\* there as its input.
Absent == [exists |-> FALSE, mtime |-> 0, text |-> <<>>]
File(mtime, text) == [exists |-> TRUE, mtime |-> mtime, text |-> text]
Files == {Absent} \cup {File(m, t) : m \in Mtimes, t \in Texts}
FileSystems == [Paths -> Files]
NoFiles == [f \in Paths |-> Absent]
Only(file_path, file) == [NoFiles EXCEPT ![file_path] = file]
\* of a file system, what an operation that extracts no text has read
Stat(fs) == [f \in Paths |-> [fs[f] EXCEPT !.text = <<>>]]

NoIndex == [exists |-> FALSE, entries |-> EmptyBag]
Index(entries) == [exists |-> TRUE, entries |-> entries]

\* history record: the operation, its arguments, the files it read (fs), the
\* ids its path held in the table before it ran (for an operation on all
\* files: the ids of the table), and how it ended; for the update that ends
\* a move, the path the file left (src) and the ids that path held (moved)
Did(op, path, force, fs, before, outcome) ==
    [op |-> op, path |-> path, force |-> force, fs |-> fs, before |-> before,
     outcome |-> outcome, src |-> "", moved |-> {}]

\* nothing is running: the thread is back in its event loop
Idle == Did("idle", "", FALSE, NoFiles, {}, "")

NoResults == [status |-> "none", query |-> <<>>, top_n |-> None,
              hits |-> <<>>, out |-> <<>>]

Now == [db |-> db, entries |-> index.entries, outcome |-> "start"]

\* the caps that keep the ids and the index finite
Capped(st) ==
    /\ st.db # {} => Max(DbIds(st.db)) <= MaxId
    /\ IndexSize(st.entries) <= MaxEntries

\* an Indexer operation has left the stores st
Leave(st, gone) ==
    /\ Capped(st)
    /\ db' = st.db
    /\ index' = Index(st.entries)
    /\ removed' = (removed \cup gone) \ DbPaths(st.db)
    /\ results' = NoResults
    /\ UNCHANGED <<searcher_vars, thread_vars>>

\* the Searcher as constructed (searcher.py lines 15-19)
NoTask == [pc |-> "idle", fut |-> 0, future |-> 0, top_n |-> None,
           hits |-> <<>>, i |-> 0, unique_files |-> {}, out |-> <<>>]
SearcherInit ==
    /\ futures = <<>>
    /\ current_future = 0
    /\ executor = [work_queue |-> <<>>, shutdown |-> FALSE]
    /\ lock = [pc |-> "free", fut |-> 0]
    /\ worker = NoTask

\* an Indexer thread that runs nothing
Parked == [pc |-> "idle", op |-> "", todo |-> <<>>, file_path |-> "",
           force_update |-> FALSE, last_modified |-> 0, embeddings |-> <<>>,
           existing_chunks |-> {}, chunk_ids |-> <<>>,
           existing_chunk_ids |-> {}, k |-> 0]
Threads == {"observer", "update_thread", "caller"}
NoThreads ==
    /\ threads = [t \in Threads |-> Parked]
    /\ events = 0
    /\ stop_flag = FALSE

Init ==
    /\ db = {}
    /\ index = NoIndex
    /\ last = Idle
    /\ removed = {}
    /\ results = NoResults
    /\ SearcherInit
    /\ NoThreads

----------------------------------------------------------------------------
(* Spec: the operations, each run to completion *)

\* Indexer.start_indexer with no index yet: init_index
start_indexer ==
    /\ last = Idle
    /\ ~index.exists
    /\ index' = Index(init_index(db))
    /\ last' = Did("init_index", "", FALSE, NoFiles, {}, "done")
    /\ results' = NoResults
    /\ UNCHANGED <<db, removed, searcher_vars, thread_vars>>

\* the process ends and a new Indexer is constructed: the table stays
Restart ==
    /\ index' = NoIndex
    /\ last' = Idle
    /\ results' = NoResults
    /\ UNCHANGED <<db, removed, searcher_vars, thread_vars>>

\* the Indexer is started and no operation is running
Ready == last = Idle /\ index.exists

UpdateIndex(file_path, force_update) ==
    \E file \in Files :
        \E st \in {update_index(Now, Only(file_path, file), file_path,
                                 force_update)} :
            /\ Leave(st, {})
            /\ last' = Did("update_index", file_path, force_update,
                           IF st.outcome = "updated"
                           THEN Only(file_path, file)
                           ELSE Stat(Only(file_path, file)),
                           IdsOf(db, file_path), st.outcome)

\* FileHandler.on_modified, on_created
on_modified == Ready /\ \E f \in Paths : UpdateIndex(f, TRUE)
on_created == Ready /\ \E f \in Paths : UpdateIndex(f, TRUE)

\* Indexer.update_index(file_path) with the default force_update=False
update_index_unforced == Ready /\ \E f \in Paths : UpdateIndex(f, FALSE)

\* update_index, forced or not, while the embedder fails
update_index_embedding_fails ==
    /\ Ready
    /\ \E f \in Paths, force_update \in BOOLEAN, file \in Files :
        \E st \in {update_index_embedder_raises(Now, Only(f, file), f,
                                                 force_update)} :
            /\ st.outcome = "embedding_failed"
            /\ Leave(st, {})
            /\ last' = Did("update_index", f, force_update, Only(f, file),
                           IdsOf(db, f), st.outcome)

\* FileHandler.on_deleted
on_deleted ==
    /\ Ready
    /\ \E f \in Paths :
        \E st \in {remove_from_index(Now, f)} :
            /\ Leave(st, {f})
            /\ last' = Did("remove_from_index", f, FALSE, NoFiles,
                           IdsOf(db, f), st.outcome)

\* on_moved with the delete of the old path left out
moved_from_kept(st, src_path) == Stores(st.db, st.entries, "nothing")

\* FileHandler.on_moved, first call: the old path leaves both stores
moved_from(st, src_path) == remove_from_index(st, src_path)

\* FileHandler.on_moved: remove_from_index(src), update_index(dest, True)
on_moved ==
    /\ Ready
    /\ \E src \in Paths, dest \in Paths, file \in Files :
        \E mid \in {moved_from(Now, src)} :
            \E st \in {update_index(mid, Only(dest, file), dest, TRUE)} :
                /\ src # dest
                /\ Leave(st, {src})
                /\ last' = [Did("update_index", dest, TRUE,
                                IF st.outcome = "updated"
                                THEN Only(dest, file)
                                ELSE Stat(Only(dest, file)),
                                IdsOf(mid.db, dest), st.outcome)
                                EXCEPT !.src = src, !.moved = IdsOf(db, src)]

\* Indexer.update_indexes
force_update_indexes ==
    /\ Ready
    /\ \E fs \in FileSystems :
        \E files \in Orders(Walked(fs)) :
            \E st \in {update_indexes(Now, fs, files)} :
                /\ Leave(st, {})
                /\ last' = Did("update_indexes", "", TRUE, fs, DbIds(db),
                               st.outcome)

\* Indexer.check_and_update_index, the stop flag clear
initial_check ==
    /\ Ready
    /\ \E fs \in FileSystems :
        LET db_file_paths == DbPaths(db)
            current_file_paths == Walked(fs)
        IN  \E to_remove \in Orders(db_file_paths \ current_file_paths),
               to_check \in Orders(db_file_paths \cap current_file_paths),
               new_files \in Orders(current_file_paths \ db_file_paths) :
                \E st \in {check_and_update_index(Now, fs, to_remove,
                                                   to_check, new_files)} :
                    /\ Leave(st, Range(to_remove))
                    /\ last' = Did("check_and_update_index", "", FALSE,
                                   Stat(fs), DbIds(db), st.outcome)

\* a query run from start to end with nothing else in between
Search ==
    \E query \in Queries, top_n \in TopNs :
        /\ last = Idle
        /\ last' = Did("search", "", FALSE, NoFiles, {}, "done")
        /\ UNCHANGED <<db, index, removed, searcher_vars, thread_vars>>
        /\ IF ~index.exists
           THEN results' = [status |-> "no_index", query |-> query,
                            top_n |-> top_n, hits |-> <<>>, out |-> <<>>]
           ELSE LET k == upper_bound_top_n(db, top_n)
                    n == effective_top_n(db, top_n)
                IN  IF k = 0
                    THEN results' = [status |-> "error", query |-> query,
                                     top_n |-> top_n, hits |-> <<>>, out |-> <<>>]
                    ELSE \E hits \in IndexSearch(index.entries,
                                                 query_embedding(query), k) :
                            results' = [status |-> "ok", query |-> query,
                                        top_n |-> top_n, hits |-> hits,
                                        out |-> Walk(hits, db, n, 1, {}, <<>>)]

\* the operation has returned; its thread waits for the next event
Return ==
    /\ last # Idle
    /\ last' = Idle
    /\ results' = NoResults
    /\ UNCHANGED <<db, index, removed, searcher_vars, thread_vars>>

Next ==
    \/ Return
    \/ start_indexer
    \/ Restart
    \/ on_modified
    \/ on_created
    \/ update_index_unforced
    \/ update_index_embedding_fails
    \/ on_deleted
    \/ on_moved
    \/ force_update_indexes
    \/ initial_check
    \/ Search

Spec == Init /\ [][Next]_vars

----------------------------------------------------------------------------
(* Properties of Spec *)

StoreIds == DbIds(db)
VectorIds == IndexIds(index.entries)
Emitted(out) == {out[i].file_path : i \in 1..Len(out)}
Resolves(id, file_path) == \E r \in db : r.id = id /\ r.file_path = file_path
Embeddings(fs, file_path) ==
    get_document_embeddings(preamble(file_path) \o fs[file_path].text)

\* C1: after a completed per-file update (update_index that wrote, from any
\* state, the file indexed before or not), the ids in the FAISS index are
\* the ids in the table.
C1_BijectionAfterUpdate ==
    (last.op = "update_index" /\ last.outcome = "updated")
        => VectorIds = StoreIds

\* C2: when update_index re-indexes a file that held m chunks with content
\* of n < m chunks, the table holds n rows for the file, their ids are in
\* the index, and every id the file held before that is not among them is in
\* neither store.
C2_ShrinkCorrectness ==
    (/\ last.op = "update_index"
     /\ last.outcome = "updated"
     /\ Cardinality(last.before) > Len(Embeddings(last.fs, last.path)))
        => LET current == IdsOf(db, last.path)
           IN  /\ Cardinality(current) = Len(Embeddings(last.fs, last.path))
               /\ current \subseteq VectorIds
               /\ \A id \in last.before \ current :
                      id \notin StoreIds /\ id \notin VectorIds

\* C3: after a full rescan (update_indexes) the index holds exactly one
\* vector per row of the table, under the row's id, and every row of the
\* table is a chunk of a file the rescan walked, with that file's mtime:
\* nothing from before the rescan is left in either store.
C3_BijectionAfterRescan ==
    last.op = "update_indexes"
        => /\ VectorIds = StoreIds
           /\ \A e \in BagToSet(index.entries) :
                  /\ index.entries[e] = 1
                  /\ \E r \in db : r.id = e.id /\ r.embedding = e.vec
           /\ DbPaths(db) = Walked(last.fs)
           /\ \A r \in db :
                  /\ r.last_modified = last.fs[r.file_path].mtime
                  /\ r.chunk_index < Len(Embeddings(last.fs, r.file_path))
                  /\ r.embedding =
                        Embeddings(last.fs, r.file_path)[r.chunk_index + 1]

C3_Witness ==
    /\ last.op = "update_indexes"
    /\ db # {}
    /\ \E id \in last.before : id \notin StoreIds

\* C4: after remove_from_index(f) none of the ids f held in the table is in
\* the table or in the index, and no search run while f stays unindexed
\* returns f.
C4_DeletionCorrectness ==
    /\ last.op = "remove_from_index"
        => /\ RowsOf(db, last.path) = {}
           /\ last.before \cap (StoreIds \cup VectorIds) = {}
    /\ results.status = "ok"
        => removed \cap Emitted(results.out) = {}

C4_Witness ==
    /\ results.status = "ok"
    /\ removed # {}
    /\ results.out # <<>>
    /\ \E i \in 1..Len(results.hits) :
          results.hits[i].id # NoId /\ results.hits[i].id \notin StoreIds

\* C5: remove_from_index(A) leaves the rows of every other file B and the
\* index entries under B's ids as they were; and from stores in step (as
\* with a.txt holding ids 1, 2 and b.txt id 3) the table and the index are
\* left with the ids of the other files alone.
C5_DeletionFrame ==
    [][last'.op = "remove_from_index"
        => /\ \A B \in Paths \ {last'.path} :
                  /\ RowsOf(db', B) = RowsOf(db, B)
                  /\ \A id \in IdsOf(db, B), e \in BagToSet(index.entries) \cup
                                                 BagToSet(index'.entries) :
                        e.id = id =>
                            CopiesIn(e, index'.entries) = CopiesIn(e, index.entries)
           /\ IndexIds(index.entries) = DbIds(db)
                => /\ DbIds(db') = DbIds(db) \ IdsOf(db, last'.path)
                   /\ IndexIds(index'.entries) = DbIds(db')]_vars

C5_Witness ==
    /\ last.op = "remove_from_index"
    /\ last.path = "a.txt"
    /\ last.before = {1, 2}
    /\ StoreIds = {3}
    /\ VectorIds = {3}

\* C6: update_index(f, force_update=False) on a file whose mtime is not
\* above the watermark the table holds for it takes the skip: the table and
\* the index are unchanged and no embedding is computed.
C6_Idempotence ==
    [][(/\ last'.op = "update_index"
        /\ ~last'.force
        /\ last'.fs[last'.path].exists
        /\ get_last_modified_time(db, last'.path) # None
        /\ last'.fs[last'.path].mtime <= get_last_modified_time(db, last'.path))
        => /\ db' = db
           /\ index' = index
           /\ last'.outcome = "skipped"]_vars

C6_Witness ==
    /\ last.op = "update_index"
    /\ ~last.force
    /\ last.outcome = "skipped"
    /\ last.fs[last.path].mtime = get_last_modified_time(db, last.path)

\* C8: a search result names no file twice, and each file it names is
\* paired with the least distance among the overscanned hits whose id
\* resolves to that file.
C8_Dedup ==
    results.status = "ok"
        => LET out == results.out
               hits == results.hits
           IN  /\ \A i, j \in 1..Len(out) :
                      i # j => out[i].file_path # out[j].file_path
               /\ \A i \in 1..Len(out) :
                      out[i].distance =
                          Min({hits[j].dist : j \in
                                {k \in 1..Len(hits) :
                                    /\ hits[k].id # NoId
                                    /\ Resolves(hits[k].id, out[i].file_path)}})

C8_Witness ==
    /\ results.status = "ok"
    /\ \E i \in 1..Len(results.out) :
          \E j, k \in 1..Len(results.hits) :
              /\ results.hits[j].id # NoId
              /\ results.hits[k].id # NoId
              /\ results.hits[j].id # results.hits[k].id
              /\ Resolves(results.hits[j].id, results.out[i].file_path)
              /\ Resolves(results.hits[k].id, results.out[i].file_path)
              /\ results.hits[j].dist < results.hits[k].dist

\* C13: when the embedder fails during update_index of a file, the update
\* writes nothing: the file's rows stay in the table with their watermark,
\* their ids stay in the index, and nothing else changes either.
C13_UnchangedOnEmbeddingFailure ==
    [][last'.outcome = "embedding_failed"
        => /\ RowsOf(db', last'.path) = RowsOf(db, last'.path)
           /\ get_last_modified_time(db', last'.path) =
                  get_last_modified_time(db, last'.path)
           /\ \A id \in IdsOf(db, last'.path) :
                  id \in IndexIds(index.entries)
                      => id \in IndexIds(index'.entries)
           /\ db' = db
           /\ index' = index]_vars

C13_Witness ==
    /\ last.outcome = "embedding_failed"
    /\ last.before # {}
    /\ last.before \subseteq VectorIds
    /\ RowsOf(db, last.path) # {}

\* C14: when update_index runs on a file whose extraction gives the empty
\* text (unreadable, or not a text file), it goes on with zero chunks:
\* afterwards the table holds no row of the file, and the ids the file held
\* are in neither store.
C14_NonIndexableZeroChunks ==
    (/\ last.op = "update_index"
     /\ last.outcome = "updated"
     /\ extract_text_from_file(last.fs, last.path) = <<>>)
        => /\ RowsOf(db, last.path) = {}
           /\ last.before \cap (StoreIds \cup VectorIds) = {}

\* the index holds one vector for each row of the table, under the row's
\* id, and nothing else
InStep == index.entries = init_index(db)

\* C16: a query with top_n absent, run on stores in step with nothing else
\* running, returns every file path of the table exactly once, also when
\* files have more than one chunk.
C16_AbsentTopNReturnsAll ==
    (results.status = "ok" /\ results.top_n = None /\ InStep)
        => /\ Emitted(results.out) = DbPaths(db)
           /\ Len(results.out) = Cardinality(DbPaths(db))

\* The reference list of C17, built from the hits without the loop: the
\* hits that count are those that are not the -1 sentinel and resolve to a
\* row; of these, the first for each file path, in the order of the hits,
\* up to top_n of them.
Counts(hits, j) == hits[j].id # NoId /\ \E r \in db : r.id = hits[j].id
PathAt(hits, j) == (CHOOSE r \in db : r.id = hits[j].id).file_path
Firsts(hits) ==
    {j \in 1..Len(hits) :
        /\ Counts(hits, j)
        /\ \A i \in 1..(j - 1) :
              Counts(hits, i) => PathAt(hits, i) # PathAt(hits, j)}
Rank(S, j) == Cardinality({i \in S : i <= j})
Reference(hits, top_n) ==
    LET S == {j \in Firsts(hits) : Rank(Firsts(hits), j) <= top_n}
    IN  [n \in 1..Cardinality(S) |->
            LET j == CHOOSE j \in S : Rank(S, j) = n
            IN  [file_path |-> PathAt(hits, j), distance |-> hits[j].dist]]

\* C17: with top_n given, the result of a query that is not cancelled is
\* the reference list over the 5 * top_n nearest ids in ascending distance;
\* so it has at most top_n entries, in non-decreasing distance.
C17_ResultWalk ==
    (results.status = "ok" /\ results.top_n # None)
        => /\ results.hits \in IndexSearch(index.entries,
                                           query_embedding(results.query),
                                           5 * results.top_n)
           /\ \A i, j \in 1..Len(results.hits) :
                  i < j /\ results.hits[j].id # NoId
                      => /\ results.hits[i].id # NoId
                         /\ results.hits[i].dist <= results.hits[j].dist
           /\ results.out = Reference(results.hits, results.top_n)
           /\ Len(results.out) <= results.top_n
           /\ \A i, j \in 1..Len(results.out) :
                  i < j => results.out[i].distance <= results.out[j].distance

\* a walk that skipped a hit without a row, skipped a second chunk of a
\* file already emitted, and ended at the sentinel
C17_Witness ==
    /\ results.status = "ok"
    /\ results.top_n = 2
    /\ Len(results.out) = 1
    /\ \E j \in 1..Len(results.hits) :
          results.hits[j].id # NoId /\ ~Counts(results.hits, j)
    /\ \E j \in 1..Len(results.hits) :
          Counts(results.hits, j) /\ j \notin Firsts(results.hits)
    /\ \E j \in 1..Len(results.hits) : results.hits[j].id = NoId

\* C20: a move is handled as remove_from_index(old path) and then a forced
\* update_index(new path): the stores it leaves are the ones the forced
\* update leaves when run on the stores the delete leaves. Once it is done
\* the old path has no row, no vector is left under an id the old path held
\* unless the id was issued again to a chunk of the new path, and, the
\* mtime of the new path being readable, the update was not skipped: the new
\* path has one row per chunk of its content and their ids are in the index.
C20_MoveHandling ==
    [][(last'.op = "update_index" /\ last'.src # "") =>
        LET src == last'.src
            dest == last'.path
            st == update_index(remove_from_index(Now, src), last'.fs, dest, TRUE)
        IN  /\ last'.outcome \in {"updated", "raised"}
            /\ RowsOf(db', src) = {}
            /\ \A e \in BagToSet(index'.entries) :
                   e.id \in IdsOf(db, src) =>
                       \E r \in RowsOf(db', dest) :
                           r.id = e.id /\ r.embedding = e.vec
            /\ last'.outcome = "updated" =>
                   /\ db' = st.db
                   /\ index'.entries = st.entries
                   /\ RowsOf(db', dest) # {}
                   /\ Cardinality(RowsOf(db', dest)) =
                          Len(Embeddings(last'.fs, dest))
                   /\ \A r \in RowsOf(db', dest) :
                          r.embedding =
                              Embeddings(last'.fs, dest)[r.chunk_index + 1]
                   /\ IdsOf(db', dest) \subseteq IndexIds(index'.entries)
            /\ last'.outcome = "raised" =>
                   /\ db' = remove_from_index(Now, src).db
                   /\ index'.entries = remove_from_index(Now, src).entries]_vars

\* a move of an indexed file onto an indexed path, the new path taking an
\* id the old path held
C20_Witness ==
    /\ last.op = "update_index"
    /\ last.src # ""
    /\ last.outcome = "updated"
    /\ last.moved # {}
    /\ last.before # {}
    /\ last.moved \cap IdsOf(db, last.path) # {}
    /\ RowsOf(db, last.src) = {}

\* C21: after check_and_update_index has run to its end (stop flag clear, no
\* failure, the files as the walk found them), the paths of the table are
\* the files found on disk, every row's last_modified is at least the mtime
\* of its file, and a file that had rows but is not on disk has no row left
\* and no vector left under an id it held (an id issued again during the
\* run carries the vector of the row that holds it now).
C21_StartupReconciliation ==
    [][last'.op = "check_and_update_index" =>
        LET fs == last'.fs
        IN  /\ DbPaths(db') = Walked(fs)
            /\ \A r \in db' : r.last_modified >= fs[r.file_path].mtime
            /\ \A gone \in DbPaths(db) \ Walked(fs) :
                   /\ RowsOf(db', gone) = {}
                   /\ \A e \in BagToSet(index'.entries) :
                          e.id \in IdsOf(db, gone) =>
                              \E r \in db' : r.id = e.id /\ r.embedding = e.vec]_vars

\* a check that removed the rows of a file gone from disk and left rows of
\* a file still there
C21_Witness ==
    /\ last.op = "check_and_update_index"
    /\ db # {}
    /\ StoreIds \subseteq last.before
    /\ \E id \in last.before : id \notin StoreIds

\* C22: ids are monotonic and never reused: a row written by an operation
\* (an upsert, alone or after deletions or a full clear) gets an id larger
\* than every id the table held when the operation began, so never the id
\* of a chunk that was deleted or replaced.
C22_NonReusedIds ==
    [][\A r \in db' \ db : \A old \in db : r.id > old.id]_vars

\* C23: no stale vector in results: every (file_path, distance) pair a
\* search returns is the distance from the query to the embedding of a row
\* the table holds for that file when the search runs.
C23_NoStaleVectorsInResults ==
    results.status = "ok"
        => \A i \in 1..Len(results.out) :
               \E r \in RowsOf(db, results.out[i].file_path) :
                   results.out[i].distance =
                       L2(r.embedding, query_embedding(results.query))

\* C27: every stored chunk is searchable: between operations run one at a
\* time, once the index is built, every id of the table is an id of the
\* index.
C27_StoredChunkSearchable ==
    index.exists => StoreIds \subseteq VectorIds

\* a re-index has replaced rows of a file: the table's ids are in the index,
\* next to an id the table no longer holds
C27_Witness ==
    /\ index.exists
    /\ last.op = "update_index"
    /\ last.outcome = "updated"
    /\ last.before # {}
    /\ StoreIds # {}
    /\ StoreIds \subseteq VectorIds
    /\ VectorIds # StoreIds

\* the results a query may get from an index, one per order of its ties
Outcomes(entries, query, top_n) ==
    {Walk(hits, db, effective_top_n(db, top_n), 1, {}, <<>>) :
        hits \in IndexSearch(entries, query_embedding(query),
                             upper_bound_top_n(db, top_n))}

\* C9: for the query and top_n of any search, the index and the index
\* init_index would rebuild from the table give the same results up to the
\* order of ties: some order of the ties gives both the same result.
C9_RebuildEquivalence ==
    results.status = "ok"
        => Outcomes(index.entries, results.query, results.top_n)
             \cap Outcomes(init_index(db), results.query, results.top_n) # {}

----------------------------------------------------------------------------
(* SearchSpec: llm_search/searcher.py, the caller's thread and the worker   *)

MaxQueries == 2       \* Searcher.search is called at most MaxQueries times

\* concurrent.futures.Future as searcher.py uses it. outcome tells a returned
\* list ("result") from a raised exception; superseded and short_circuit
\* are history: a newer query was submitted before this one was done, and
\* the task returned at line 58.
Future(query, top_n) ==
    [state |-> "PENDING", outcome |-> "none", result |-> <<>>,
     query |-> query, top_n |-> top_n, superseded |-> FALSE,
     short_circuit |-> FALSE]

\* Future.done(), line 24
done(f) == f.state \in {"CANCELLED", "FINISHED"}

\* (mutant) cancel() that cancels nothing
cancel_ignored(f) == f

\* Future.cancel(), line 25: only a future that is not yet running is
\* cancelled; on a running or finished one cancel() returns False
cancel(f) == IF f.state = "PENDING" THEN [f EXCEPT !.state = "CANCELLED"] ELSE f

\* Future.cancelled(), line 56
cancelled(f) == f.state = "CANCELLED"

\* lines 24-25 (and 82-83): cancel the current future if it is not done
cancel_current(fs) ==
    IF current_future # 0 /\ ~done(fs[current_future])
    THEN [fs EXCEPT ![current_future] = cancel(@)]
    ELSE fs

\* the stores the queries run against: two files indexed by update_indexes
SearchFiles == [f \in Paths |-> IF f = "a.txt" THEN File(1, <<1>>)
                                ELSE File(1, <<>>)]
Indexed == update_indexes(Stores({}, EmptyBag, "start"), SearchFiles,
                          <<"a.txt", "b.txt">>)

SearchInit ==
    /\ db \in {{}, Indexed.db}
    /\ index \in {NoIndex, Index(init_index(db))}
    /\ last = Idle
    /\ removed = {}
    /\ results = NoResults
    /\ SearcherInit
    /\ NoThreads

\* Searcher.search lines 23-26: under the lock, cancel the current future
\* and submit the task. After shutdown, submit raises and search ends there.
search_submit ==
    /\ lock.pc = "free"
    /\ Len(futures) < MaxQueries
    /\ \E query \in Queries, top_n \in TopNs :
        LET after_cancel == cancel_current(futures)
            new == Len(futures) + 1
            marked == [f \in DOMAIN futures |->
                         IF done(futures[f]) THEN after_cancel[f]
                         ELSE [after_cancel[f] EXCEPT !.superseded = TRUE]]
        IN  IF executor.shutdown
            THEN /\ futures' = after_cancel
                 /\ UNCHANGED <<executor, lock>>
            ELSE /\ futures' = Append(marked, Future(query, top_n))
                 /\ executor' = [executor EXCEPT
                                    !.work_queue = Append(@, new)]
                 /\ lock' = [pc |-> "assign", fut |-> new]
    /\ UNCHANGED <<current_future, worker, indexer_vars, thread_vars>>

\* Searcher.search lines 26-27: the submitted future is stored in
\* current_future and returned; the lock is released
search_assign ==
    /\ lock.pc = "assign"
    /\ current_future' = lock.fut
    /\ lock' = [pc |-> "free", fut |-> 0]
    /\ UNCHANGED <<futures, executor, worker, indexer_vars, thread_vars>>

\* Searcher.shutdown lines 79-88
shutdown ==
    /\ lock.pc = "free"
    /\ futures' = cancel_current(futures)
    /\ executor' = [executor EXCEPT !.shutdown = TRUE]
    /\ UNCHANGED <<current_future, lock, worker, indexer_vars, thread_vars>>

\* the executor's worker takes the next work item: a cancelled future is
\* dropped, any other one is set running and its task starts
worker_take ==
    /\ worker.pc = "idle"
    /\ executor.work_queue # <<>>
    /\ LET f == Head(executor.work_queue)
       IN  /\ executor' = [executor EXCEPT !.work_queue = Tail(@)]
           /\ IF cancelled(futures[f])
              THEN UNCHANGED <<futures, worker>>
              ELSE /\ futures' = [futures EXCEPT ![f].state = "RUNNING"]
                   /\ worker' = [NoTask EXCEPT !.pc = "task", !.fut = f]
    /\ UNCHANGED <<current_future, lock, indexer_vars, thread_vars>>

\* the task has returned or raised: the worker sets the future's result
Finish(f, outcome, result, short_circuit) ==
    /\ futures' = [futures EXCEPT ![f] =
                     [@ EXCEPT !.state = "FINISHED", !.outcome = outcome,
                               !.result = result,
                               !.short_circuit = short_circuit]]
    /\ worker' = NoTask

\* _search_task lines 31-52: current_future is read (without the lock), the
\* index is searched
worker_begin ==
    /\ worker.pc = "task"
    /\ LET f == worker.fut
           top_n == futures[f].top_n
           k == upper_bound_top_n(db, top_n)
       IN  IF ~index.exists THEN Finish(f, "result", <<>>, FALSE)
           ELSE IF k = 0 THEN Finish(f, "exception", <<>>, FALSE)
           ELSE \E hits \in IndexSearch(index.entries,
                                        query_embedding(futures[f].query), k) :
                   /\ worker' = [pc |-> "walk", fut |-> f,
                                 future |-> current_future,
                                 top_n |-> effective_top_n(db, top_n),
                                 hits |-> hits, i |-> 1,
                                 unique_files |-> {}, out |-> <<>>]
                   /\ UNCHANGED futures
    /\ UNCHANGED <<current_future, executor, lock, indexer_vars, thread_vars>>

\* _search_task lines 55-77: one pass of the loop, or the return after it
worker_walk ==
    /\ worker.pc = "walk"
    /\ IF worker.i > Len(worker.hits)
       THEN Finish(worker.fut, "result", worker.out, FALSE)
       ELSE IF worker.future # 0 /\ cancelled(futures[worker.future])
       THEN Finish(worker.fut, "result", <<>>, TRUE)
       ELSE LET w == WalkStep(worker.hits, db, worker.top_n, worker.i,
                              worker.unique_files, worker.out)
            IN  IF w.stop THEN Finish(worker.fut, "result", w.out, FALSE)
                ELSE /\ worker' = [worker EXCEPT !.i = w.i,
                                      !.unique_files = w.unique_files,
                                      !.out = w.out]
                     /\ UNCHANGED futures
    /\ UNCHANGED <<current_future, executor, lock, indexer_vars, thread_vars>>

SearchNext ==
    \/ search_submit
    \/ search_assign
    \/ shutdown
    \/ worker_take
    \/ worker_begin
    \/ worker_walk

SearchSpec == SearchInit /\ [][SearchNext]_vars

----------------------------------------------------------------------------
(* Properties of SearchSpec *)

\* the handle f has delivered a list of results as its successful outcome
Delivered(f) ==
    /\ futures[f].state = "FINISHED"
    /\ futures[f].outcome = "result"
    /\ futures[f].result # <<>>

\* C7: a query that was not done when a newer query was submitted never
\* yields a result list as a successful outcome. Read in the code's favour:
\* the empty list of line 58 counts as a discarded result, so only a
\* superseded query that delivers a non-empty list breaks the property.
C7_CancellationSupersession ==
    \A f \in DOMAIN futures : futures[f].superseded => ~Delivered(f)

\* what the caller can see of a handle: Future.done(), cancelled(), and
\* the list result() returns or the exception it raises
Observed(f) ==
    [done |-> done(f), cancelled |-> cancelled(f), outcome |-> f.outcome,
     result |-> f.result]

\* the handle of a search that succeeded with nothing to return (the index
\* holds no vector: lines 59-61 and 77)
EmptySuccess ==
    [done |-> TRUE, cancelled |-> FALSE, outcome |-> "result",
     result |-> <<>>]

\* C15: a query that observes its cancellation while it executes (line 56)
\* gives the caller an outcome that differs from that of a successful
\* search with no results.
C15_DistinguishableOutcomes ==
    \A f \in DOMAIN futures :
        futures[f].short_circuit => Observed(futures[f]) # EmptySuccess

\* a search that was not cancelled and found nothing ends as EmptySuccess
EmptySuccessHappens ==
    \E f \in DOMAIN futures :
        /\ ~futures[f].short_circuit
        /\ index.exists
        /\ Observed(futures[f]) = EmptySuccess

Queued == {f \in DOMAIN futures : futures[f].state = "PENDING"}
Executing == {f \in DOMAIN futures : futures[f].state = "RUNNING"}

\* C25: a query whose task has not started when a newer query is submitted
\* is cancelled by that submission and its task never runs (a cancelled
\* future stays cancelled and is never the worker's); at any time at most
\* one task is running and at most one uncancelled query is queued.
C25_AtMostOneLiveQuery ==
    /\ [](Cardinality(Queued) <= 1 /\ Cardinality(Executing) <= 1)
    /\ [](worker.pc # "idle" => Executing = {worker.fut})
    /\ [][\A f \in DOMAIN futures :
            /\ (f \in Queued /\ Len(futures') > Len(futures))
                    => cancelled(futures'[f])
            /\ cancelled(futures[f])
                    => cancelled(futures'[f]) /\ worker'.fut # f]_vars

\* a query was cancelled while queued, and the one that replaced it has
\* run and returned results
C25_Witness ==
    /\ Len(futures) = 2
    /\ cancelled(futures[1])
    /\ futures[1].superseded
    /\ Delivered(2)

\* C26: a query after which no later query was submitted never returns at
\* the cancelled check of line 58: only a query that was superseded takes
\* the short-circuit.
C26_LatestNeverFalselyCancelled ==
    \A f \in DOMAIN futures :
        futures[f].short_circuit => futures[f].superseded

----------------------------------------------------------------------------
(* ThreadSpec: llm_search/indexer.py on its threads. start_indexer has run: *)
(* the index is loaded, update_thread runs check_and_update_index and the   *)
(* observer thread runs the FileHandler; update_indexes runs on the thread  *)
(* that calls it. The Indexer takes no lock. Each step is one access to     *)
(* the table (a statement in autocommit, or a transaction up to its         *)
(* commit) or one call of the index.                                        *)

MaxEvents == 1        \* file events and update_indexes calls, in all

other_vars == <<last, removed, results, searcher_vars, stop_flag>>

\* one per-file piece of work of an operation
Work(kind, file_path, force_update) ==
    [kind |-> kind, file_path |-> file_path, force_update |-> force_update]
Items(kind, files, force_update) ==
    [i \in 1..Len(files) |-> Work(kind, files[i], force_update)]

\* the thread's record when operation op goes on to the work in todo: at
\* the first statement of the next piece, or back in its loop with none left
Enter(op, todo) ==
    IF todo = <<>> THEN Parked
    ELSE [Parked EXCEPT
            !.op = op, !.todo = Tail(todo),
            !.file_path = Head(todo).file_path,
            !.force_update = Head(todo).force_update,
            !.pc = CASE Head(todo).kind = "update" -> "stat"
                     [] Head(todo).kind = "remove" -> "remove_select"
                     [] OTHER -> "check"]
Continue(t) == Enter(threads[t].op, threads[t].todo)

At(t, pc) == threads[t].pc = pc
Goto(t, rec) == threads' = [threads EXCEPT ![t] = rec]

\* a table that an earlier run of the program has left
Earlier == update_index(Stores({}, EmptyBag, "start"),
                        Only("a.txt", File(1, <<>>)), "a.txt", TRUE)

\* start_indexer lines 92-102
ThreadInit ==
    /\ db \in {{}, Earlier.db}
    /\ index = Index(init_index(db))
    /\ last = Idle
    /\ removed = {}
    /\ results = NoResults
    /\ SearcherInit
    /\ threads = [t \in Threads |->
                    IF t = "update_thread"
                    THEN [Parked EXCEPT !.pc = "scan",
                                        !.op = "check_and_update_index"]
                    ELSE Parked]
    /\ events = 0
    /\ stop_flag = FALSE

\* the thread t, waiting, starts an operation at rec
Begin(t, rec) ==
    /\ events' = events + 1
    /\ Goto(t, rec)
    /\ UNCHANGED <<db, index, other_vars>>

\* FileHandler lines 23-42, called on the observer thread
Waiting(t) == At(t, "idle") /\ events < MaxEvents

observer_on_modified ==
    /\ Waiting("observer")
    /\ \E f \in Paths :
        Begin("observer", Enter("FileHandler", <<Work("update", f, TRUE)>>))
observer_on_created ==
    /\ Waiting("observer")
    /\ \E f \in Paths :
        Begin("observer", Enter("FileHandler", <<Work("update", f, TRUE)>>))
observer_on_deleted ==
    /\ Waiting("observer")
    /\ \E f \in Paths :
        Begin("observer", Enter("FileHandler", <<Work("remove", f, FALSE)>>))
observer_on_moved ==
    /\ Waiting("observer")
    /\ \E src \in Paths, dest \in Paths :
        /\ src # dest
        /\ Begin("observer", Enter("FileHandler",
                                    <<Work("remove", src, FALSE),
                                      Work("update", dest, TRUE)>>))

\* update_indexes is called
caller_update_indexes ==
    /\ Waiting("caller")
    /\ Begin("caller", [Parked EXCEPT !.pc = "clear_db",
                                      !.op = "update_indexes"])

\* update_index lines 148-162: the file's mtime and the table's watermark
\* are read, the text extracted and embedded. getmtime raises on a missing
\* file and the operation of the thread ends there.
update_index_stat(t) ==
    /\ At(t, "stat")
    /\ \E file \in Files :
        LET me == threads[t]
            db_last_modified == get_last_modified_time(db, me.file_path)
            text == preamble(me.file_path) \o file.text
        IN  IF ~file.exists THEN Goto(t, Parked)
            ELSE IF needs_update(me.force_update, db_last_modified, file.mtime)
                    /\ text # <<>>
            THEN Goto(t, [me EXCEPT
                            !.pc = "upsert_select",
                            !.last_modified = file.mtime,
                            !.embeddings = get_document_embeddings(text)])
            ELSE Goto(t, Continue(t))
    /\ UNCHANGED <<db, index, events, other_vars>>

\* insert_or_update_embedding lines 38-39
upsert_select(t) ==
    /\ At(t, "upsert_select")
    /\ Goto(t, [threads[t] EXCEPT
                   !.pc = "upsert_commit",
                   !.existing_chunks =
                       {r.chunk_index : r \in RowsOf(db, threads[t].file_path)}])
    /\ UNCHANGED <<db, index, events, other_vars>>

\* lines 44-45 with chunks_to_delete as computed at line 42
DeleteChunks(table, file_path, chunks_to_delete) ==
    {r \in table :
        ~(r.file_path = file_path /\ r.chunk_index \in chunks_to_delete)}

\* insert_or_update_embedding lines 41-55: one transaction
upsert_commit(t) ==
    /\ At(t, "upsert_commit")
    /\ LET me == threads[t]
           new_chunks == 0..(Len(me.embeddings) - 1)
           chunks_to_delete == me.existing_chunks \ new_chunks
       IN  \E up \in {InsertLoop(DeleteChunks(db, me.file_path, chunks_to_delete),
                                  me.file_path, me.embeddings,
                                  me.last_modified, 1, <<>>)} :
               /\ Max(DbIds(up.table)) <= MaxId
               /\ db' = up.table
               /\ Goto(t, [me EXCEPT !.pc = "select",
                                     !.chunk_ids = up.chunk_ids,
                                     !.existing_chunks = {},
                                     !.last_modified = 0])
    /\ UNCHANGED <<index, events, other_vars>>

\* update_index lines 166-173
update_index_select(t) ==
    /\ At(t, "select")
    /\ Goto(t, [threads[t] EXCEPT
                   !.pc = "prune",
                   !.existing_chunk_ids =
                       existing_chunk_ids(db, threads[t].file_path)])
    /\ UNCHANGED <<db, index, events, other_vars>>

\* update_index lines 176-178
update_index_remove_ids(t) ==
    /\ At(t, "prune")
    /\ LET me == threads[t]
           stale == chunks_to_remove(me.existing_chunk_ids, Range(me.chunk_ids))
       IN  /\ index' = IF stale # {}
                       THEN Index(remove_ids(index.entries, stale))
                       ELSE index
           /\ Goto(t, [me EXCEPT !.pc = "add", !.k = 1,
                                 !.existing_chunk_ids = {}])
    /\ UNCHANGED <<db, events, other_vars>>

\* update_index lines 181-183: one pass of the loop
update_index_add(t) ==
    /\ At(t, "add")
    /\ IndexSize(index.entries) < MaxEntries
    /\ LET me == threads[t]
       IN  /\ index' = Index(add_with_ids(index.entries, me.embeddings[me.k],
                                          me.chunk_ids[me.k]))
           /\ IF me.k < Len(me.embeddings)
              THEN Goto(t, [me EXCEPT !.k = me.k + 1])
              ELSE Goto(t, Continue(t))
    /\ UNCHANGED <<db, events, other_vars>>

\* remove_from_index lines 190-195
remove_select(t) ==
    /\ At(t, "remove_select")
    /\ LET ids == IdsOf(db, threads[t].file_path)
       IN  IF ids # {}
           THEN Goto(t, [threads[t] EXCEPT !.pc = "remove_ids",
                                           !.existing_chunk_ids = ids])
           ELSE Goto(t, Continue(t))
    /\ UNCHANGED <<db, index, events, other_vars>>

\* remove_from_index line 196
remove_remove_ids(t) ==
    /\ At(t, "remove_ids")
    /\ index' = Index(remove_ids(index.entries, threads[t].existing_chunk_ids))
    /\ Goto(t, [threads[t] EXCEPT !.pc = "delete",
                                   !.existing_chunk_ids = {}])
    /\ UNCHANGED <<db, events, other_vars>>

\* remove_from_index lines 197-198
remove_delete(t) ==
    /\ At(t, "delete")
    /\ db' = DeleteFileRows(db, threads[t].file_path)
    /\ Goto(t, Continue(t))
    /\ UNCHANGED <<index, events, other_vars>>

\* update_indexes lines 126-129
update_indexes_clear(t) ==
    /\ At(t, "clear_db")
    /\ db' = {}
    /\ Goto(t, [threads[t] EXCEPT !.pc = "reset"])
    /\ UNCHANGED <<index, events, other_vars>>

\* update_indexes line 132
update_indexes_reset(t) ==
    /\ At(t, "reset")
    /\ index' = Index(IndexReset)
    /\ Goto(t, [threads[t] EXCEPT !.pc = "walk"])
    /\ UNCHANGED <<db, events, other_vars>>

\* update_indexes lines 135-139: the files os.walk yields, each to be
\* passed to update_index(file_path, force_update=True)
update_indexes_walk(t) ==
    /\ At(t, "walk")
    /\ \E found \in SUBSET Paths :
        \E files \in Orders(found) :
            Goto(t, Enter("update_indexes", Items("update", files, TRUE)))
    /\ UNCHANGED <<db, index, events, other_vars>>

\* check_and_update_index lines 212-228, 237, 249, the stop flag clear: the
\* table's paths and the files found, and from them the work of the loops
check_and_update_index_scan(t) ==
    /\ At(t, "scan")
    /\ \E current_file_paths \in SUBSET Paths :
        LET db_file_paths == DbPaths(db)
        IN  \E files_to_remove \in Orders(db_file_paths \ current_file_paths),
               files_to_check \in Orders(db_file_paths \cap current_file_paths),
               new_files \in Orders(current_file_paths \ db_file_paths) :
                Goto(t, Enter("check_and_update_index",
                              Items("remove", files_to_remove, FALSE)
                              \o Items("check", files_to_check, FALSE)
                              \o Items("update", new_files, TRUE)))
    /\ UNCHANGED <<db, index, events, other_vars>>

\* check_and_update_index lines 242-246
check_and_update_index_check(t) ==
    /\ At(t, "check")
    /\ \E file \in Files :
        LET me == threads[t]
            db_last_modified == get_last_modified_time(db, me.file_path)
        IN  IF ~file.exists THEN Goto(t, Parked)
            ELSE IF db_last_modified = None \/ file.mtime > db_last_modified
            THEN Goto(t, [me EXCEPT !.pc = "stat"])
            ELSE Goto(t, Continue(t))
    /\ UNCHANGED <<db, index, events, other_vars>>

ThreadNext ==
    \/ observer_on_modified
    \/ observer_on_created
    \/ observer_on_deleted
    \/ observer_on_moved
    \/ caller_update_indexes
    \/ \E t \in Threads : update_index_stat(t)
    \/ \E t \in Threads : upsert_select(t)
    \/ \E t \in Threads : upsert_commit(t)
    \/ \E t \in Threads : update_index_select(t)
    \/ \E t \in Threads : update_index_remove_ids(t)
    \/ \E t \in Threads : update_index_add(t)
    \/ \E t \in Threads : remove_select(t)
    \/ \E t \in Threads : remove_remove_ids(t)
    \/ \E t \in Threads : remove_delete(t)
    \/ \E t \in Threads : update_indexes_clear(t)
    \/ \E t \in Threads : update_indexes_reset(t)
    \/ \E t \in Threads : update_indexes_walk(t)
    \/ \E t \in Threads : check_and_update_index_scan(t)
    \/ \E t \in Threads : check_and_update_index_check(t)

ThreadSpec == ThreadInit /\ [][ThreadNext]_vars

----------------------------------------------------------------------------
(* Properties of ThreadSpec *)

\* thread t is in the middle of a mutation: its operation has written to
\* the table or the index and has a write of the same per-file operation,
\* or of the same rescan, still to make
Mutating(t) ==
    \/ threads[t].pc \in {"select", "prune", "add"}      \* update_index
    \/ threads[t].pc = "delete"                          \* remove_from_index
    \/ /\ threads[t].op = "update_indexes"               \* update_indexes
       /\ threads[t].pc # "clear_db"

\* C10: at no time are two mutations of the table and the index in progress
\* together, whichever threads the file events, the startup check and the
\* full rescan run on.
C10_SerializedMutation ==
    Cardinality({t \in Threads : Mutating(t)}) <= 1

\* C12: a failure on one file of a full rescan (update_indexes) or of the
\* startup check (check_and_update_index) does not abort the batch: while
\* files of the batch are left to process, the batch goes on.
C12_FailureContainment ==
    [][\A t \in Threads :
        (/\ threads[t].op \in {"update_indexes", "check_and_update_index"}
         /\ threads[t].todo # <<>>)
            => threads'[t].op = threads[t].op]_vars

\* thread t commits its upsert in this step
Commits(t) == threads[t].pc = "upsert_commit" /\ threads'[t].pc = "select"

\* C18: insert_or_update_embedding(file_path, embeddings, last_modified)
\* returns len(embeddings) ids, the k-th the id of the row now stored for
\* (file_path, k); afterwards the file's chunk_index values are exactly
\* 0..len(embeddings)-1, and the rows of other files are unchanged.
C18_UpsertContract ==
    [][\A t \in Threads :
        Commits(t) =>
            LET file_path == threads[t].file_path
                embeddings == threads[t].embeddings
                chunk_ids == threads'[t].chunk_ids
            IN  /\ Len(chunk_ids) = Len(embeddings)
                /\ \A k \in 1..Len(embeddings) :
                      \E r \in db' : /\ r.id = chunk_ids[k]
                                     /\ r.file_path = file_path
                                     /\ r.chunk_index = k - 1
                                     /\ r.embedding = embeddings[k]
                /\ {r.chunk_index : r \in RowsOf(db', file_path)} =
                      0..(Len(embeddings) - 1)
                /\ \A B \in Paths \ {file_path} :
                      RowsOf(db', B) = RowsOf(db, B)]_vars

\* what a reader of the table sees of a file's chunks
ChunksSeen(table, file_path) ==
    {[chunk_index |-> r.chunk_index, embedding |-> r.embedding,
      last_modified |-> r.last_modified] : r \in RowsOf(table, file_path)}

\* C19: the delete-then-insert of insert_or_update_embedding is one atomic
\* unit: a reader of the table sees all of the file's old chunks, or, from
\* the commit on, all of its new chunks and only them, never a mix.
C19_AtomicUpsert ==
    [][\A t \in Threads :
        LET file_path == threads[t].file_path
            embeddings == threads[t].embeddings
        IN  /\ Commits(t) =>
                  ChunksSeen(db', file_path) =
                      {[chunk_index |-> k - 1, embedding |-> embeddings[k],
                        last_modified |-> threads[t].last_modified] :
                            k \in 1..Len(embeddings)}
            /\ (threads[t].pc = "upsert_commit" /\ ~Commits(t)
                    /\ \A u \in Threads : threads'[u].pc = threads[u].pc)
                  => ChunksSeen(db', file_path) = ChunksSeen(db, file_path)]_vars

----------------------------------------------------------------------------
(* QuerySpec: _search_task against the Indexer's threads. The startup      *)
(* check has ended; the observer thread handles file events, update_indexes *)
(* may be called, and the executor's worker runs one query task. The call  *)
(* of index.search (line 52) takes time: FAISS runs it outside the         *)
(* interpreter lock, and no lock of the program covers the index.          *)

\* the worker's task: seen is the index as it was when index.search was
\* entered, k the number of neighbours asked for
Task(pc, query, top_n, k, seen, hits) ==
    [pc |-> pc, query |-> query, top_n |-> top_n, k |-> k, seen |-> seen,
     hits |-> hits, i |-> 1, unique_files |-> {}, out |-> <<>>]
NoQuery == Task("idle", <<>>, None, 0, EmptyBag, <<>>)
Finished == Task("finished", <<>>, None, 0, EmptyBag, <<>>)

QueryInit ==
    /\ db \in {{}, Earlier.db}
    /\ index = Index(init_index(db))
    /\ last = Idle
    /\ removed = {}
    /\ results = NoResults
    /\ futures = <<>>
    /\ current_future = 0
    /\ executor = [work_queue |-> <<>>, shutdown |-> FALSE]
    /\ lock = [pc |-> "free", fut |-> 0]
    /\ worker = NoQuery
    /\ NoThreads

query_vars == <<last, removed, futures, current_future, executor, lock>>

\* the task ends with the list out (line 77), or raising
query_return(status, out) ==
    /\ results' = [status |-> status, query |-> worker.query,
                   top_n |-> worker.top_n, hits |-> worker.hits, out |-> out]
    /\ worker' = Finished

\* _search_task lines 31-52: without an index the task returns [] (lines
\* 33-35); else top_n and the overscan are fixed (the count of distinct
\* files read from the table) and index.search is entered
query_search_call ==
    /\ worker.pc = "idle"
    /\ \E query \in Queries, top_n \in TopNs :
        LET k == upper_bound_top_n(db, top_n)
        IN  IF ~index.exists
            THEN /\ results' = [status |-> "no_index", query |-> query,
                                top_n |-> top_n, hits |-> <<>>, out |-> <<>>]
                 /\ worker' = Finished
            ELSE IF k = 0
            THEN /\ results' = [status |-> "error", query |-> query,
                                top_n |-> top_n, hits |-> <<>>, out |-> <<>>]
                 /\ worker' = Finished
            ELSE /\ worker' = Task("searching", query,
                                   effective_top_n(db, top_n), k,
                                   index.entries, <<>>)
                 /\ UNCHANGED results
    /\ UNCHANGED <<db, index, query_vars, thread_vars>>

\* what a search that ran while the index was changed may have read: any
\* part of what the index held when the call began and holds when it ends
Torn(seen, entries) ==
    IF seen = entries THEN {entries} ELSE SubBag(seen (+) entries)

\* line 52 returns
query_search_return ==
    /\ worker.pc = "searching"
    /\ \E read \in Torn(worker.seen, index.entries) :
        \E hits \in IndexSearch(read, query_embedding(worker.query), worker.k) :
            worker' = [worker EXCEPT !.pc = "walk", !.seen = EmptyBag,
                                     !.hits = hits]
    /\ UNCHANGED <<db, index, results, query_vars, thread_vars>>

\* lines 55-77: one pass of the loop over the table as it is now, or the
\* return after the loop (current_future is None: no newer query)
query_walk ==
    /\ worker.pc = "walk"
    /\ IF worker.i > Len(worker.hits)
       THEN query_return("ok", worker.out)
       ELSE LET w == WalkStep(worker.hits, db, worker.top_n, worker.i,
                              worker.unique_files, worker.out)
            IN  IF w.stop THEN query_return("ok", w.out)
                ELSE /\ worker' = [worker EXCEPT
                                      !.i = w.i,
                                      !.unique_files = w.unique_files,
                                      !.out = w.out]
                     /\ UNCHANGED results
    /\ UNCHANGED <<db, index, query_vars, thread_vars>>

QueryNext ==
    \/ query_search_call
    \/ query_search_return
    \/ query_walk
    \/ observer_on_modified
    \/ observer_on_created
    \/ observer_on_deleted
    \/ observer_on_moved
    \/ caller_update_indexes
    \/ \E t \in Threads : update_index_stat(t)
    \/ \E t \in Threads : upsert_select(t)
    \/ \E t \in Threads : upsert_commit(t)
    \/ \E t \in Threads : update_index_select(t)
    \/ \E t \in Threads : update_index_remove_ids(t)
    \/ \E t \in Threads : update_index_add(t)
    \/ \E t \in Threads : remove_select(t)
    \/ \E t \in Threads : remove_remove_ids(t)
    \/ \E t \in Threads : remove_delete(t)
    \/ \E t \in Threads : update_indexes_clear(t)
    \/ \E t \in Threads : update_indexes_reset(t)
    \/ \E t \in Threads : update_indexes_walk(t)

QuerySpec == QueryInit /\ [][QueryNext]_vars

----------------------------------------------------------------------------
(* Properties of QuerySpec *)

\* C11: no add, remove or reset of the index by the Indexer overlaps a
\* search of the index by a query task: while a call of index.search is in
\* progress the index is as it was when the call began.
C11_SynchronizedIndexAccess ==
    worker.pc = "searching" => index.entries = worker.seen

----------------------------------------------------------------------------
(* StartSpec: the program starts on a table an earlier run has left. The   *)
(* thread that calls start_indexer runs init_index; the observer and       *)
(* update_thread are started after it (lines 96-102), so nothing writes    *)
(* the table. A Searcher holds the Indexer and its worker may run a query  *)
(* task at any time.                                                       *)

StartInit ==
    /\ db \in {{}, Earlier.db, Indexed.db}
    /\ index = NoIndex
    /\ last = Idle
    /\ removed = {}
    /\ results = NoResults
    /\ futures = <<>>
    /\ current_future = 0
    /\ executor = [work_queue |-> <<>>, shutdown |-> FALSE]
    /\ lock = [pc |-> "free", fut |-> 0]
    /\ worker = NoQuery
    /\ NoThreads

Starting == [Parked EXCEPT !.pc = "init_index_load", !.op = "start_indexer"]

\* start_indexer lines 92-93, init_index lines 59-60: self.index is set to
\* a new, empty IndexIDMap
init_index_create ==
    /\ threads["caller"] = Parked
    /\ ~index.exists
    /\ index' = Index(EmptyBag)
    /\ Goto("caller", Starting)
    /\ UNCHANGED <<db, results, worker, query_vars, events, stop_flag>>

\* init_index lines 62-82: the rows of the table are read and added
init_index_load ==
    /\ threads["caller"] = Starting
    /\ index' = Index(init_index(db))
    /\ Goto("caller", Parked)
    /\ UNCHANGED <<db, results, worker, query_vars, events, stop_flag>>

\* the process ends and is started again: a new Indexer, a new Searcher
process_restart ==
    /\ threads["caller"] = Parked
    /\ index.exists
    /\ index' = NoIndex
    /\ worker' = NoQuery
    /\ results' = NoResults
    /\ UNCHANGED <<db, query_vars, thread_vars>>

StartNext ==
    \/ init_index_create
    \/ init_index_load
    \/ process_restart
    \/ query_search_call
    \/ query_search_return
    \/ query_walk

StartSpec == StartInit /\ [][StartNext]_vars

----------------------------------------------------------------------------
(* Properties of StartSpec *)

\* C24: on a start the index is repopulated with the (id, vector) pairs of
\* all rows of the table before any query's index search runs: a query
\* task that enters index.search finds the index holding every row.
C24_RepopulationBeforeQueries ==
    worker.pc = "searching" => worker.seen = init_index(db)

----------------------------------------------------------------------------
(* StopSpec: start_indexer has run; update_thread runs                     *)
(* check_and_update_index, one pass of a loop at a time, each per-file     *)
(* operation in one step; another thread may call stop_indexer.            *)

\* (mutant) the loops do not look at the flag
stop_flag_ignored(flag) == FALSE

\* self.stop_flag.is_set(), lines 222, 232, 240, 252
stop_flag_is_set(flag) == flag

Checking(pc) == [Parked EXCEPT !.pc = pc, !.op = "check_and_update_index"]

StopInit ==
    /\ db \in {{}, Earlier.db, Indexed.db}
    /\ index = Index(init_index(db))
    /\ last = Idle
    /\ removed = {}
    /\ results = NoResults
    /\ SearcherInit
    /\ threads = [t \in Threads |->
                    IF t = "update_thread" THEN Checking("scan") ELSE Parked]
    /\ events = 0
    /\ stop_flag = FALSE

stop_vars == <<last, removed, results, searcher_vars, events>>

\* Indexer.stop_indexer line 105
stop_indexer ==
    /\ ~stop_flag
    /\ stop_flag' = TRUE
    /\ UNCHANGED <<db, index, threads, stop_vars>>

\* check_and_update_index lines 212-216 and what the walk and the loops
\* will visit: the files the walk finds, then files_to_remove (line 229),
\* files_to_check (line 237) and new_files (line 249)
initial_check_scan ==
    /\ At("update_thread", "scan")
    /\ \E current_file_paths \in SUBSET Paths :
        LET db_file_paths == DbPaths(db)
        IN  \E found \in Orders(current_file_paths),
               files_to_remove \in Orders(db_file_paths \ current_file_paths),
               files_to_check \in Orders(db_file_paths \cap current_file_paths),
               new_files \in Orders(current_file_paths \ db_file_paths) :
                Goto("update_thread",
                     [Checking("loop") EXCEPT !.todo =
                          Items("walk", found, FALSE)
                          \o Items("remove", files_to_remove, FALSE)
                          \o Items("check", files_to_check, FALSE)
                          \o Items("update", new_files, TRUE)])
    /\ UNCHANGED <<db, index, stop_flag, stop_vars>>

\* the head of a loop pass (lines 221-225, 231-233, 239-241, 251-253): with
\* the flag set the function returns; a file of the walk is added to
\* current_file_paths; any other file goes to its operation. With nothing
\* left the function returns (line 257).
initial_check_iterate ==
    /\ At("update_thread", "loop")
    /\ LET me == threads["update_thread"]
       IN  IF me.todo = <<>> \/ stop_flag_is_set(stop_flag)
           THEN Goto("update_thread", Parked)
           ELSE Goto("update_thread",
                     [me EXCEPT !.todo = Tail(@),
                                !.file_path = Head(me.todo).file_path,
                                !.force_update = Head(me.todo).force_update,
                                !.pc = IF Head(me.todo).kind = "walk"
                                       THEN "loop" ELSE Head(me.todo).kind])
    /\ UNCHANGED <<db, index, stop_flag, stop_vars>>

\* the operation of the pass has left the stores st
Back(st) ==
    /\ db' = st.db
    /\ index' = Index(st.entries)
    /\ Goto("update_thread",
            IF st.outcome = "raised" THEN Parked
            ELSE [threads["update_thread"] EXCEPT !.pc = "loop",
                                                  !.file_path = ""])
    /\ UNCHANGED <<stop_flag, stop_vars>>

\* line 234
initial_check_remove ==
    /\ At("update_thread", "remove")
    /\ Back(remove_from_index(Now, threads["update_thread"].file_path))

\* lines 242-246: an exception of getmtime ends the check
initial_check_check ==
    /\ At("update_thread", "check")
    /\ \E file \in Files :
        LET f == threads["update_thread"].file_path
        IN  IF ~file.exists
            THEN Back(Stores(db, index.entries, "raised"))
            ELSE Back(CheckLoop(Now, Only(f, file), <<f>>))

\* line 255
initial_check_update ==
    /\ At("update_thread", "update")
    /\ \E file \in Files :
        LET f == threads["update_thread"].file_path
        IN  Back(update_index(Now, Only(f, file), f, TRUE))

InitialCheck ==
    \/ initial_check_scan
    \/ initial_check_iterate
    \/ initial_check_remove
    \/ initial_check_check
    \/ initial_check_update

StopNext ==
    \/ stop_indexer
    \/ initial_check_scan
    \/ initial_check_iterate
    \/ initial_check_remove
    \/ initial_check_check
    \/ initial_check_update

StopSpec == StopInit /\ [][StopNext]_vars

\* update_thread is a thread of its own: it is scheduled
FairStopSpec == StopSpec /\ WF_vars(InitialCheck)

----------------------------------------------------------------------------
(* Properties of StopSpec *)

InOperation == threads["update_thread"].pc \in {"remove", "check", "update"}
Returned == threads["update_thread"] = Parked

\* C28: once the stop flag is set, check_and_update_index begins no pass of
\* a loop: from the head of a pass it returns, and the one per-file
\* operation that was under way ends at the head of the next pass or ends
\* the check; with update_thread scheduled, the check returns after a stop
\* request.
C28_StopFlag ==
    /\ [][stop_flag =>
            /\ At("update_thread", "loop") => Returned'
            /\ InOperation =>
                   \/ Returned'
                   \/ threads'["update_thread"].pc = "loop"]_vars
    /\ (stop_flag ~> Returned)

\* the flag is set with the check at the head of a pass, the removals
\* done and a file left to check or update
C28_Witness ==
    /\ stop_flag
    /\ At("update_thread", "loop")
    /\ db # {}
    /\ \E i \in 1..Len(threads["update_thread"].todo) :
          threads["update_thread"].todo[i].kind # "walk"
    /\ \A i \in 1..Len(threads["update_thread"].todo) :
          threads["update_thread"].todo[i].kind # "remove"

====
